---------------------------- MODULE Spec2Model ----------------------------
(* RFC 2818 host name check of lib/x509/rfc2818_hostname.c:                *)
(*   hostname_compare                          (the wildcard comparison)     *)
(*   gnutls_x509_check_certificates_hostname   (DER encoded certificate)     *)
(*   gnutls_x509_certificate_check_hostname    (certificate structure)       *)
(* C strings are sequences of one-character strings (the terminating NUL is *)
(* the end of the sequence); C ints are integers, 0 is false.               *)
EXTENDS Integers, Sequences, FiniteSets

VARIABLES certname, hostname, wcpc, wcres, san, cn, enc, hnd

vars == <<certname, hostname, wcpc, wcres, san, cn, enc, hnd>>

-----------------------------------------------------------------------------
(* Bounds *)

\* longest string handed to hostname_compare in SpecWC
MaxLen == 5

\* longest subjectAltName list of a certificate in Spec
MaxSan == 3

Alphabet == {"*", ".", "a"}

Strings == UNION {[1..n -> Alphabet] : n \in 0..MaxLen}

-----------------------------------------------------------------------------
(* The C library calls hostname_compare makes *)

strlen(s) == Len(s)

Min(a, b) == IF a < b THEN a ELSE b

\* 0 iff the first n characters (up to the NUL) agree; only = 0 is consumed
strncmp(s1, s2, n) ==
  IF SubSeq(s1, 1, Min(n, Len(s1))) = SubSeq(s2, 1, Min(n, Len(s2))) THEN 0 ELSE 1

\* 0 iff the strings agree; only = 0 is consumed
strcmp(s1, s2) == IF s1 = s2 THEN 0 ELSE 1

\* the string at pointer s + k
PtrAdd(s, k) == SubSeq(s, k + 1, Len(s))

\* offset of the first c in s, -1 for the NULL pointer
RECURSIVE strchrFrom(_, _, _)
strchrFrom(s, c, k) ==
  IF k >= Len(s) THEN -1
  ELSE IF s[k + 1] = c THEN k
  ELSE strchrFrom(s, c, k + 1)

strchr(s, c) == strchrFrom(s, c, 0)

\* offset of the last c in s, -1 for the NULL pointer
RECURSIVE strrchrFrom(_, _, _)
strrchrFrom(s, c, k) ==
  IF k < 0 THEN -1
  ELSE IF s[k + 1] = c THEN k
  ELSE strrchrFrom(s, c, k - 1)

\* hostname_compare looking for the last dot of hostname instead of the first
hostname_compare_lastdot(cname, hname) ==
  IF strlen(cname) = 0 \/ strlen(hname) = 0 THEN 0
  ELSE IF strlen(cname) > 2 /\ strncmp(cname, <<"*", ".">>, 2) = 0
       THEN LET cmpstr1 == PtrAdd(cname, 1)
                cmpstr2 == strrchrFrom(hname, ".", Len(hname) - 1)
            IN  IF cmpstr2 = -1 THEN 0
                ELSE IF strcmp(cmpstr1, PtrAdd(hname, cmpstr2)) = 0 THEN 1
                ELSE 0
       ELSE IF strcmp(cname, hname) = 0 THEN 1 ELSE 0

\* hostname_compare skipping the "*." of certname instead of the "*" alone
hostname_compare_skip2(cname, hname) ==
  IF strlen(cname) = 0 \/ strlen(hname) = 0 THEN 0
  ELSE IF strlen(cname) > 2 /\ strncmp(cname, <<"*", ".">>, 2) = 0
       THEN LET cmpstr1 == PtrAdd(cname, 2)
                cmpstr2 == strchr(hname, ".")
            IN  IF cmpstr2 = -1 THEN 0
                ELSE IF strcmp(cmpstr1, PtrAdd(hname, cmpstr2)) = 0 THEN 1
                ELSE 0
       ELSE IF strcmp(cname, hname) = 0 THEN 1 ELSE 0

\* compare hostname against certificate, taking account of wildcards:
\* 1 on success, 0 on error
hostname_compare(cname, hname) ==
  IF strlen(cname) = 0 \/ strlen(hname) = 0 THEN 0
  ELSE IF strlen(cname) > 2 /\ strncmp(cname, <<"*", ".">>, 2) = 0
       THEN LET cmpstr1 == PtrAdd(cname, 1)
                cmpstr2 == strchr(hname, ".")
            IN  IF cmpstr2 = -1 THEN 0
                ELSE IF strcmp(cmpstr1, PtrAdd(hname, cmpstr2)) = 0 THEN 1
                ELSE 0
       ELSE IF strcmp(cname, hname) = 0 THEN 1 ELSE 0

-----------------------------------------------------------------------------
(* The certificate layer the two entry points call.  Its code is outside    *)
(* the files modelled: what is modelled is what a call reports.  The return *)
(* codes are those of the gnutls headers; the entry points consume only     *)
(* ret = GNUTLS_SAN_DNSNAME and ret < 0.                                     *)

GNUTLS_SAN_DNSNAME == 1

GNUTLS_SAN_RFC822NAME == 2

\* no subjectAltName with this sequence number
GNUTLS_E_REQUESTED_DATA_NOT_AVAILABLE == -56

\* the subjectAltName with this sequence number cannot be decoded
GNUTLS_E_ASN1_DER_ERROR == -69

\* names a certificate carries, and host names a client asks for, in Spec
CertNames == { <<>>, <<"*", ".", "a">>, <<"a">> }

HostNames == { <<"a", ".", "a">>, <<"a">> }

\* what the extraction of one present subjectAltName reports
SanEntries ==
  {[ret |-> GNUTLS_SAN_DNSNAME, name |-> n] : n \in CertNames}
    \cup {[ret |-> GNUTLS_SAN_RFC822NAME, name |-> <<>>],
          [ret |-> GNUTLS_E_ASN1_DER_ERROR, name |-> <<>>]}

SanSeqs == UNION {[1..n -> SanEntries] : n \in 0..MaxSan}

\* what the retrieval of the common name reports: 0 and the name, or an error
CnOutcomes ==
  {[ret |-> 0, name |-> n] : n \in CertNames}
    \cup {[ret |-> GNUTLS_E_REQUESTED_DATA_NOT_AVAILABLE, name |-> <<>>]}

\* gnutls_x509_extract_certificate_subject_alt_name(cert, seq, dnsname, &size)
\* and gnutls_x509_certificate_get_subject_alt_name(cert, seq, dnsname, &size, NULL)
get_subject_alt_name(cert, seq) ==
  IF seq < Len(cert) THEN cert[seq + 1]
  ELSE [ret |-> GNUTLS_E_REQUESTED_DATA_NOT_AVAILABLE, name |-> <<>>]

-----------------------------------------------------------------------------
(* One call of an entry point: its locals (i, ret, found_dnsname), its      *)
(* position (pc), the value it returned (result, read once pc is RETURNED)  *)
(* and a log of what it asked of its collaborators: the subjectAltName       *)
(* sequence numbers requested (asked), the number of common name retrievals *)
(* (cnAsked) and the names handed to hostname_compare (compared).           *)
(* A certificate is [san |-> what each sequence number reports,              *)
(*                   cn  |-> what the retrieval of the common name reports] *)

NewCall ==
  [pc |-> "SCANNING_SAN", i |-> 0, ret |-> 0, found_dnsname |-> 0,
   result |-> 0, asked |-> <<>>, cnAsked |-> 0, compared |-> <<>>]

Return(c, value) == [c EXCEPT !.pc = "RETURNED", !.result = value]

\* the loop of gnutls_x509_check_certificates_hostname setting found_dnsname
\* only once a dNSName matched
check_certificates_hostname_loop_found_on_match(c, cert, hname) ==
  LET r == get_subject_alt_name(cert.san, c.i)
      c1 == [c EXCEPT !.ret = r.ret, !.asked = Append(@, c.i)]
  IN  IF c1.ret = GNUTLS_SAN_DNSNAME
      THEN LET c2 == [c1 EXCEPT !.compared = Append(@, r.name)]
           IN  IF hostname_compare(r.name, hname) # 0
               THEN Return([c2 EXCEPT !.found_dnsname = 1], 1)
               ELSE [c2 EXCEPT !.i = @ + 1]
      ELSE LET c2 == [c1 EXCEPT !.i = @ + 1]
           IN  IF ~(c2.ret < 0) THEN c2
               ELSE IF c2.found_dnsname = 0
                    THEN [c2 EXCEPT !.pc = "CHECKING_CN"]
                    ELSE Return(c2, 0)

\* the loop of gnutls_x509_check_certificates_hostname setting found_dnsname
\* for a subjectAltName of any type
check_certificates_hostname_loop_any_type(c, cert, hname) ==
  LET r == get_subject_alt_name(cert.san, c.i)
      c1 == [c EXCEPT !.ret = r.ret, !.asked = Append(@, c.i)]
  IN  IF c1.ret = GNUTLS_SAN_DNSNAME
      THEN LET c2 == [c1 EXCEPT !.found_dnsname = 1,
                                !.compared = Append(@, r.name)]
           IN  IF hostname_compare(r.name, hname) # 0
               THEN Return(c2, 1)
               ELSE [c2 EXCEPT !.i = @ + 1]
      ELSE LET c2 == [c1 EXCEPT !.i = @ + 1,
                                !.found_dnsname = IF c1.ret < 0 THEN @ ELSE 1]
           IN  IF ~(c2.ret < 0) THEN c2
               ELSE IF c2.found_dnsname = 0
                    THEN [c2 EXCEPT !.pc = "CHECKING_CN"]
                    ELSE Return(c2, 0)

\* the loop of gnutls_x509_check_certificates_hostname incrementing i twice
\* after a dNSName that does not match
check_certificates_hostname_loop_skip(c, cert, hname) ==
  LET r == get_subject_alt_name(cert.san, c.i)
      c1 == [c EXCEPT !.ret = r.ret, !.asked = Append(@, c.i)]
  IN  IF c1.ret = GNUTLS_SAN_DNSNAME
      THEN LET c2 == [c1 EXCEPT !.found_dnsname = 1,
                                !.compared = Append(@, r.name)]
           IN  IF hostname_compare(r.name, hname) # 0
               THEN Return(c2, 1)
               ELSE [c2 EXCEPT !.i = @ + 2]
      ELSE LET c2 == [c1 EXCEPT !.i = @ + 1]
           IN  IF ~(c2.ret < 0) THEN c2
               ELSE IF c2.found_dnsname = 0
                    THEN [c2 EXCEPT !.pc = "CHECKING_CN"]
                    ELSE Return(c2, 0)

\* gnutls_x509_check_certificates_hostname: one iteration of the for loop
\* (the extraction, the dNSName test, the comparison, i++), with the loop
\* test that follows it and, when the loop ends, the test of found_dnsname
check_certificates_hostname_loop(c, cert, hname) ==
  LET r == get_subject_alt_name(cert.san, c.i)
      c1 == [c EXCEPT !.ret = r.ret, !.asked = Append(@, c.i)]
  IN  IF c1.ret = GNUTLS_SAN_DNSNAME
      THEN LET c2 == [c1 EXCEPT !.found_dnsname = 1,
                                !.compared = Append(@, r.name)]
           IN  IF hostname_compare(r.name, hname) # 0
               THEN Return(c2, 1)
               ELSE [c2 EXCEPT !.i = @ + 1]
      ELSE LET c2 == [c1 EXCEPT !.i = @ + 1]
           IN  IF ~(c2.ret < 0) THEN c2
               ELSE IF c2.found_dnsname = 0
                    THEN [c2 EXCEPT !.pc = "CHECKING_CN"]
                    ELSE Return(c2, 0)

\* the common name step of gnutls_x509_check_certificates_hostname comparing
\* with strcmp instead of hostname_compare
check_certificates_hostname_cn_exact(c, cert, hname) ==
  LET c1 == [c EXCEPT !.cnAsked = @ + 1]
  IN  IF cert.cn.ret # 0 THEN Return(c1, 0)
      ELSE LET c2 == [c1 EXCEPT !.compared = Append(@, cert.cn.name)]
           IN  IF strcmp(cert.cn.name, hname) = 0
               THEN Return(c2, 1)
               ELSE Return(c2, 0)

\* gnutls_x509_check_certificates_hostname: the common name, tried when no
\* subjectAltName of type dNSName was found
check_certificates_hostname_cn(c, cert, hname) ==
  LET c1 == [c EXCEPT !.cnAsked = @ + 1]
  IN  IF cert.cn.ret # 0 THEN Return(c1, 0)
      ELSE LET c2 == [c1 EXCEPT !.compared = Append(@, cert.cn.name)]
           IN  IF hostname_compare(cert.cn.name, hname) # 0
               THEN Return(c2, 1)
               ELSE Return(c2, 0)

\* the loop of gnutls_x509_certificate_check_hostname running only while
\* ret is GNUTLS_SAN_DNSNAME
certificate_check_hostname_loop_stop_at_other(c, cert, hname) ==
  LET r == get_subject_alt_name(cert.san, c.i)
      c1 == [c EXCEPT !.ret = r.ret, !.asked = Append(@, c.i)]
  IN  IF c1.ret = GNUTLS_SAN_DNSNAME
      THEN LET c2 == [c1 EXCEPT !.found_dnsname = 1,
                                !.compared = Append(@, r.name)]
           IN  IF hostname_compare(r.name, hname) # 0
               THEN Return(c2, 1)
               ELSE [c2 EXCEPT !.i = @ + 1]
      ELSE LET c2 == [c1 EXCEPT !.i = @ + 1]
           IN  IF c2.ret = GNUTLS_SAN_DNSNAME THEN c2
               ELSE IF c2.found_dnsname = 0
                    THEN [c2 EXCEPT !.pc = "CHECKING_CN"]
                    ELSE Return(c2, 0)

\* the loop of gnutls_x509_certificate_check_hostname clearing found_dnsname
\* at a subjectAltName of another type
certificate_check_hostname_loop_last_type(c, cert, hname) ==
  LET r == get_subject_alt_name(cert.san, c.i)
      c1 == [c EXCEPT !.ret = r.ret, !.asked = Append(@, c.i)]
  IN  IF c1.ret = GNUTLS_SAN_DNSNAME
      THEN LET c2 == [c1 EXCEPT !.found_dnsname = 1,
                                !.compared = Append(@, r.name)]
           IN  IF hostname_compare(r.name, hname) # 0
               THEN Return(c2, 1)
               ELSE [c2 EXCEPT !.i = @ + 1]
      ELSE LET c2 == [c1 EXCEPT !.i = @ + 1,
                                !.found_dnsname = IF c1.ret < 0 THEN @ ELSE 0]
           IN  IF ~(c2.ret < 0) THEN c2
               ELSE IF c2.found_dnsname = 0
                    THEN [c2 EXCEPT !.pc = "CHECKING_CN"]
                    ELSE Return(c2, 0)

\* gnutls_x509_certificate_check_hostname: one iteration of the for loop
\* (the extraction, the dNSName test, the comparison, i++), with the loop
\* test that follows it and, when the loop ends, the test of found_dnsname
certificate_check_hostname_loop(c, cert, hname) ==
  LET r == get_subject_alt_name(cert.san, c.i)
      c1 == [c EXCEPT !.ret = r.ret, !.asked = Append(@, c.i)]
  IN  IF c1.ret = GNUTLS_SAN_DNSNAME
      THEN LET c2 == [c1 EXCEPT !.found_dnsname = 1,
                                !.compared = Append(@, r.name)]
           IN  IF hostname_compare(r.name, hname) # 0
               THEN Return(c2, 1)
               ELSE [c2 EXCEPT !.i = @ + 1]
      ELSE LET c2 == [c1 EXCEPT !.i = @ + 1]
           IN  IF ~(c2.ret < 0) THEN c2
               ELSE IF c2.found_dnsname = 0
                    THEN [c2 EXCEPT !.pc = "CHECKING_CN"]
                    ELSE Return(c2, 0)

\* the common name step of gnutls_x509_certificate_check_hostname ignoring
\* the failure of the retrieval
certificate_check_hostname_cn_unchecked(c, cert, hname) ==
  LET c1 == [c EXCEPT !.cnAsked = @ + 1]
  IN  IF FALSE THEN Return(c1, 0)
      ELSE LET c2 == [c1 EXCEPT !.compared = Append(@, cert.cn.name)]
           IN  IF hostname_compare(cert.cn.name, hname) # 0
               THEN Return(c2, 1)
               ELSE Return(c2, 0)

\* gnutls_x509_certificate_check_hostname: the common name, tried when no
\* subjectAltName of type dNSName was found
certificate_check_hostname_cn(c, cert, hname) ==
  LET c1 == [c EXCEPT !.cnAsked = @ + 1]
  IN  IF cert.cn.ret # 0 THEN Return(c1, 0)
      ELSE LET c2 == [c1 EXCEPT !.compared = Append(@, cert.cn.name)]
           IN  IF hostname_compare(cert.cn.name, hname) # 0
               THEN Return(c2, 1)
               ELSE Return(c2, 0)

\* a call of gnutls_x509_check_certificates_hostname run from c to its return
RECURSIVE RunEncoded(_, _, _)
RunEncoded(c, cert, hname) ==
  IF c.pc = "RETURNED" THEN c
  ELSE IF c.pc = "SCANNING_SAN"
       THEN RunEncoded(check_certificates_hostname_loop(c, cert, hname), cert, hname)
       ELSE RunEncoded(check_certificates_hostname_cn(c, cert, hname), cert, hname)

gnutls_x509_check_certificates_hostname(cert, hname) ==
  RunEncoded(NewCall, cert, hname).result

\* a call of gnutls_x509_certificate_check_hostname run from c to its return
RECURSIVE RunHandle(_, _, _)
RunHandle(c, cert, hname) ==
  IF c.pc = "RETURNED" THEN c
  ELSE IF c.pc = "SCANNING_SAN"
       THEN RunHandle(certificate_check_hostname_loop(c, cert, hname), cert, hname)
       ELSE RunHandle(certificate_check_hostname_cn(c, cert, hname), cert, hname)

gnutls_x509_certificate_check_hostname(cert, hname) ==
  RunHandle(NewCall, cert, hname).result

-----------------------------------------------------------------------------
(* Spec: both entry points called on the same certificate and host name *)

Cert == [san |-> san, cn |-> cn]

Init ==
  /\ san \in SanSeqs
  /\ cn \in CnOutcomes
  /\ hostname \in HostNames
  /\ enc = NewCall
  /\ hnd = NewCall
  /\ certname = <<>>
  /\ wcpc = "returned"
  /\ wcres = 0

EncSanStep ==
  /\ enc.pc = "SCANNING_SAN"
  /\ enc' = check_certificates_hostname_loop(enc, Cert, hostname)
  /\ UNCHANGED <<certname, hostname, wcpc, wcres, san, cn, hnd>>

EncCnStep ==
  /\ enc.pc = "CHECKING_CN"
  /\ enc' = check_certificates_hostname_cn(enc, Cert, hostname)
  /\ UNCHANGED <<certname, hostname, wcpc, wcres, san, cn, hnd>>

HndSanStep ==
  /\ hnd.pc = "SCANNING_SAN"
  /\ hnd' = certificate_check_hostname_loop(hnd, Cert, hostname)
  /\ UNCHANGED <<certname, hostname, wcpc, wcres, san, cn, enc>>

HndCnStep ==
  /\ hnd.pc = "CHECKING_CN"
  /\ hnd' = certificate_check_hostname_cn(hnd, Cert, hostname)
  /\ UNCHANGED <<certname, hostname, wcpc, wcres, san, cn, enc>>

Next == EncSanStep \/ EncCnStep \/ HndSanStep \/ HndCnStep

Spec == Init /\ [][Next]_vars

\* a call, once made, runs to its return: the code is synchronous
FairSpec ==
  /\ Spec
  /\ WF_vars(EncSanStep \/ EncCnStep)
  /\ WF_vars(HndSanStep \/ HndCnStep)

-----------------------------------------------------------------------------
(* SpecWC: hostname_compare applied to every pair of bounded strings *)

InitWC ==
  /\ certname \in Strings
  /\ hostname \in Strings
  /\ wcpc = "call"
  /\ wcres = 0
  /\ san = <<>>
  /\ cn = [ret |-> 0, name |-> <<>>]
  /\ enc = NewCall
  /\ hnd = NewCall

Compare ==
  /\ wcpc = "call"
  /\ wcres' = hostname_compare(certname, hostname)
  /\ wcpc' = "returned"
  /\ UNCHANGED <<certname, hostname, san, cn, enc, hnd>>

NextWC == Compare

SpecWC == InitWC /\ [][NextWC]_vars

-----------------------------------------------------------------------------
(* Vocabulary of the properties *)

IsDns(e) == e.ret = GNUTLS_SAN_DNSNAME

\* an entry that cannot be decoded
IsUndecodable(e) == e.ret < 0

\* every entry is of type dNSName or of another type: none is undecodable
WellFormed(s) == \A k \in DOMAIN s : ~IsUndecodable(s[k])

WildcardCompare(cname, hname) == hostname_compare(cname, hname) # 0

Returned(c) == c.pc = "RETURNED"

HasDns(s) == \E k \in DOMAIN s : IsDns(s[k])

DnsMatchAt(s, k) == IsDns(s[k]) /\ WildcardCompare(s[k].name, hostname)

Str_wa == <<"*", ".", "a">>

Str_aa == <<"a", ".", "a">>

Dns(n) == [ret |-> GNUTLS_SAN_DNSNAME, name |-> n]

OtherEntry == [ret |-> GNUTLS_SAN_RFC822NAME, name |-> <<>>]

UndecodableEntry == [ret |-> GNUTLS_E_ASN1_DER_ERROR, name |-> <<>>]

-----------------------------------------------------------------------------
\* C1: when the subjectAltName list has no undecodable entry, holds a dNSName
\* and no dNSName of it compares equal to the host name, both entry points
\* return 0 without retrieving the common name, whatever the common name is;
\* and a call that has seen a dNSName never retrieves the common name.
C1_NoFallbackOnceDnsSeen ==
  \A c \in {enc, hnd} :
    WellFormed(san) =>
      /\ (c.found_dnsname = 1 => c.cnAsked = 0 /\ c.pc # "CHECKING_CN")
      /\ (/\ Returned(c)
          /\ HasDns(san)
          /\ \A k \in DOMAIN san : ~DnsMatchAt(san, k))
         => (c.result = 0 /\ c.cnAsked = 0)

\* the common name would match, the only dNSName does not
C1_Witness ==
  /\ san = <<OtherEntry, Dns(<<"a">>)>>
  /\ cn = [ret |-> 0, name |-> Str_wa]
  /\ hostname = Str_aa
  /\ Returned(enc) /\ Returned(hnd)
  /\ enc.result = 0 /\ hnd.result = 0

-----------------------------------------------------------------------------
\* C2: an undecodable subjectAltName is skipped: with an undecodable entry at
\* k and a dNSName at some j > k, a call that has returned has not retrieved
\* the common name, and has returned 1 if such a dNSName matches.
C2_UndecodableEntrySkipped ==
  \A c \in {enc, hnd} :
    \A k \in DOMAIN san :
      (Returned(c) /\ IsUndecodable(san[k])) =>
        /\ (\E j \in DOMAIN san : j > k /\ IsDns(san[j])) => c.cnAsked = 0
        /\ (\E j \in DOMAIN san : j > k /\ DnsMatchAt(san, j)) => c.result = 1

-----------------------------------------------------------------------------
\* C3: when the list has no undecodable entry and some dNSName of it matches,
\* both entry points return 1; the traversal stops at the first matching
\* entry (the sequence numbers asked are 0 .. its own, the last name compared
\* is that entry's) and the common name is not retrieved.
C3_FirstMatchWins ==
  \A c \in {enc, hnd} :
    \A k \in DOMAIN san :
      (/\ Returned(c)
       /\ WellFormed(san)
       /\ DnsMatchAt(san, k)
       /\ \A j \in 1..(k - 1) : ~DnsMatchAt(san, j))
      => /\ c.result = 1
         /\ c.cnAsked = 0
         /\ c.asked = [x \in 1..k |-> x - 1]
         /\ c.compared # <<>>
         /\ c.compared[Len(c.compared)] = san[k].name

\* the match is the third entry, after another type and a dNSName that differs
C3_Witness ==
  /\ san = <<OtherEntry, Dns(<<"a">>), Dns(Str_wa)>>
  /\ cn = [ret |-> 0, name |-> <<"a">>]
  /\ hostname = Str_aa
  /\ Returned(enc) /\ Returned(hnd)
  /\ enc.result = 1 /\ hnd.result = 1

-----------------------------------------------------------------------------
\* C4: when no entry of the list is a dNSName (the list is empty, its first
\* extraction fails, or every entry is of another type) and the common name
\* is retrieved, both entry points return hostname_compare(common name,
\* host name); found_dnsname is set only after a dNSName was extracted.
C4_CommonNameFallback ==
  \A c \in {enc, hnd} :
    /\ (Returned(c) /\ ~HasDns(san) /\ cn.ret = 0)
       => (c.result = hostname_compare(cn.name, hostname) /\ c.cnAsked = 1)
    /\ c.found_dnsname = 1
       => \E x \in DOMAIN c.asked : c.asked[x] < Len(san) /\ IsDns(san[c.asked[x] + 1])

\* two entries of another type, a wildcard common name that matches
C4_Witness ==
  /\ san = <<OtherEntry, OtherEntry>>
  /\ cn = [ret |-> 0, name |-> Str_wa]
  /\ hostname = Str_aa
  /\ Returned(enc) /\ Returned(hnd)
  /\ enc.result = 1 /\ hnd.result = 1
  /\ enc.found_dnsname = 0 /\ hnd.found_dnsname = 0

-----------------------------------------------------------------------------
\* C5: when no dNSName was found and the retrieval of the common name fails,
\* both entry points return 0 and hostname_compare was run on no name; what
\* an entry point returns is always 0 or 1, whatever its collaborators report.
C5_FailClosed ==
  \A c \in {enc, hnd} :
    Returned(c) =>
      /\ c.result \in {0, 1}
      /\ (c.found_dnsname = 0 /\ cn.ret # 0) => (c.result = 0 /\ c.compared = <<>>)

\* the first extraction fails and so does the retrieval of the common name
C5_Witness ==
  /\ san = <<UndecodableEntry>>
  /\ cn.ret # 0
  /\ Returned(enc) /\ Returned(hnd)
  /\ enc.cnAsked = 1 /\ hnd.cnAsked = 1
  /\ enc.result = 0 /\ hnd.result = 0

-----------------------------------------------------------------------------
\* C6: called on the same subjectAltName outcomes, the same common name
\* outcome and the same host name, the two entry points return the same value.
C6_EntryPointsAgree ==
  (Returned(enc) /\ Returned(hnd)) => enc.result = hnd.result

\* both returned 1 from the common name
C6_Witness ==
  /\ Returned(enc) /\ Returned(hnd)
  /\ enc.cnAsked = 1 /\ hnd.cnAsked = 1
  /\ enc.result = 1 /\ hnd.result = 1
  /\ Len(san) = MaxSan

-----------------------------------------------------------------------------
\* C7: for certname longer than 2 that begins with "*." and a non-empty
\* hostname, hostname_compare returns 1 iff hostname has a dot and hostname
\* from its first dot on equals certname without its "*": iff hostname is a
\* dot-free text followed by certname without its "*".
C7_WildcardFirstLabel ==
  (/\ wcpc = "returned"
   /\ Len(certname) > 2
   /\ certname[1] = "*" /\ certname[2] = "."
   /\ Len(hostname) > 0)
  => /\ wcres \in {0, 1}
     /\ wcres = 1 <=>
          \E k \in DOMAIN hostname :
            /\ hostname[k] = "."
            /\ \A j \in 1..(k - 1) : hostname[j] # "."
            /\ SubSeq(hostname, k, Len(hostname)) = Tail(certname)
     /\ wcres = 1 <=>
          \E k \in 0..Len(hostname) :
            /\ \A j \in 1..k : hostname[j] # "."
            /\ hostname = SubSeq(hostname, 1, k) \o Tail(certname)

\* "*.a" against "a.a.a": the text before the last dot is not a single label
C7_Witness ==
  /\ wcpc = "returned"
  /\ certname = Str_wa
  /\ hostname = <<"a", ".", "a", ".", "a">>
  /\ wcres = 0

-----------------------------------------------------------------------------
\* C8: hostname_compare(h, h) is 1 for every non-empty h, the wildcard forms
\* and "*." included, and hostname_compare is 0 when either string is empty.
C8_ReflexiveNonEmpty ==
  wcpc = "returned" =>
    /\ (certname = hostname /\ Len(hostname) > 0) => wcres = 1
    /\ (Len(certname) = 0 \/ Len(hostname) = 0) => wcres = 0

\* a wildcard form compared with itself
C8_Witness ==
  /\ wcpc = "returned"
  /\ certname = <<"*", ".", "a", ".", "a">>
  /\ hostname = certname
  /\ wcres = 1

-----------------------------------------------------------------------------
\* one step of a call, from c to d, as the two-state machine allows it
CallStep(c, d) ==
  \/ d = c
  \/ /\ c.pc = "SCANNING_SAN"
     /\ d.asked = Append(c.asked, Len(c.asked))
     /\ d.cnAsked = 0
     /\ LET k == Len(c.asked) + 1
        IN  \/ d.pc = "SCANNING_SAN" /\ ~(d.ret < 0)
            \/ /\ d.pc = "RETURNED" /\ d.result = 1
               /\ k <= Len(san) /\ DnsMatchAt(san, k)
            \/ d.pc = "RETURNED" /\ d.result = 0 /\ d.ret < 0 /\ d.found_dnsname = 1
            \/ d.pc = "CHECKING_CN" /\ d.ret < 0 /\ d.found_dnsname = 0
  \/ /\ c.pc = "CHECKING_CN"
     /\ d.pc = "RETURNED"
     /\ d.asked = c.asked
     /\ c.cnAsked = 0 /\ d.cnAsked = 1

-----------------------------------------------------------------------------
\* the lists obtained from s by one rearrangement
Transpose(s, k, j) ==
  [x \in 1..Len(s) |-> IF x = k THEN s[j] ELSE IF x = j THEN s[k] ELSE s[x]]

InsertAt(s, j, e) == SubSeq(s, 1, j) \o <<e>> \o SubSeq(s, j + 1, Len(s))

RemoveAt(s, k) == SubSeq(s, 1, k - 1) \o SubSeq(s, k + 1, Len(s))

Rearrangements(s) ==
  {Transpose(s, k, j) : k \in DOMAIN s, j \in DOMAIN s}
    \cup {InsertAt(s, j, s[k]) : j \in 0..Len(s), k \in DOMAIN s}
    \cup {InsertAt(s, j, OtherEntry) : j \in 0..Len(s)}
    \cup {RemoveAt(s, k) : k \in {x \in DOMAIN s : ~IsDns(s[x])}}

\* C10: for a list with no undecodable entry, exchanging two entries,
\* inserting a copy of an entry, inserting an entry of another type or
\* removing an entry of another type, at any position, leaves what either
\* entry point returns unchanged, for every host name and common name.
C10_OrderInsensitive ==
  (Returned(enc) /\ Returned(hnd) /\ WellFormed(san)) =>
    \A s2 \in Rearrangements(san) :
      /\ gnutls_x509_check_certificates_hostname([san |-> s2, cn |-> cn], hostname)
           = enc.result
      /\ gnutls_x509_certificate_check_hostname([san |-> s2, cn |-> cn], hostname)
           = hnd.result

\* a list whose rearrangements put the matching dNSName first, last or between
C10_Witness ==
  /\ san = <<Dns(Str_wa), OtherEntry, Dns(<<>>)>>
  /\ cn = [ret |-> 0, name |-> <<"a">>]
  /\ hostname = Str_aa
  /\ Returned(enc) /\ Returned(hnd)
  /\ enc.asked = <<0>>

=============================================================================
